---- MODULE Spec2Model ----
(***************************************************************************)
(* pycdft: the charge-transfer constraint (constraint/charge_transfer.py)  *)
(* and the electronic coupling pipeline (elcoupling/elcoupling.py).        *)
(*                                                                         *)
(* Numbers.  Array entries are floating point numbers in the source.  The  *)
(* model keeps them as exact values <<n, d>>:                              *)
(*   d > 0          the rational n/d in lowest terms,                      *)
(*   NaN  = <<0,0>> a non-finite value (nan or +-inf; numpy divides by     *)
(*                  zero without raising),                                 *)
(*   Inexact = <<1,0>> a finite value outside the rationals the model can  *)
(*                  write down (an irrational or complex matrix root).     *)
(***************************************************************************)
EXTENDS Integers, Sequences, FiniteSets, TLC

----------------------------------------------------------------------------
(* Exact arithmetic standing for the numpy element-wise operations.        *)

NaN == <<0, 0>>
Inexact == <<1, 0>>

IsFinite(x) == x[2] > 0

AbsInt(n) == IF n < 0 THEN -n ELSE n

RECURSIVE GCD(_, _)
GCD(a, b) == IF b = 0 THEN a ELSE GCD(b, a % b)

Norm(n, d) ==
    IF d = 0 THEN NaN
    ELSE LET g == GCD(AbsInt(n), AbsInt(d))
             s == IF d < 0 THEN -1 ELSE 1
         IN  <<(s * n) \div g, (s * d) \div g>>

Q(n) == <<n, 1>>
Zero == Q(0)
One == Q(1)
Half == <<1, 2>>

\* the non-finite or untracked operand wins; nan wins over an untracked one
Special(x, y) == IF x = NaN \/ y = NaN THEN NaN ELSE Inexact

FAdd(x, y) ==
    IF IsFinite(x) /\ IsFinite(y) THEN Norm(x[1] * y[2] + y[1] * x[2], x[2] * y[2])
    ELSE Special(x, y)

FNeg(x) == IF IsFinite(x) THEN <<-x[1], x[2]>> ELSE x

FSub(x, y) == FAdd(x, FNeg(y))

FMul(x, y) ==
    IF IsFinite(x) /\ IsFinite(y) THEN Norm(x[1] * y[1], x[2] * y[2])
    ELSE IF (x = Zero /\ y = Inexact) \/ (x = Inexact /\ y = Zero) THEN Zero
    ELSE Special(x, y)

\* x / y as numpy computes it: a zero divisor gives nan or inf, never an error
FDiv(x, y) ==
    IF IsFinite(x) /\ IsFinite(y) THEN Norm(x[1] * y[2], x[2] * y[1])
    ELSE Special(x, y)

FAbs(x) == IF IsFinite(x) THEN <<AbsInt(x[1]), x[2]>> ELSE x

FLess(x, y) == IsFinite(x) /\ IsFinite(y) /\ x[1] * y[2] < y[1] * x[2]

FLeq(x, y) == IsFinite(x) /\ IsFinite(y) /\ x[1] * y[2] <= y[1] * x[2]

----------------------------------------------------------------------------
(* ChargeTransferConstraint: state.                                        *)
(* Densities are whole multiples of half the threshold eps, so that a grid *)
(* point can hold a non-zero total density that is still below eps.        *)

Atoms == {1, 2, 3}
Grid == {1, 2}
Cart == 1 .. 3

MaxRho == 2
MaxChanges == 2
EpsUnits == 2

VARIABLES
    donor,      \* self.donor.atoms
    acceptor,   \* self.acceptor.atoms
    vspin,      \* self.sample.vspin
    rhoatom,    \* per-atom projected densities rho_I on the density grid
    w,          \* self.w of the constraint (donor, acceptor); <<>> while unset
    wSwap,      \* self.w of a second constraint on the same sample, roles swapped
    grad,       \* outcome of the last compute_w_grad_r call, not yet consumed
    fresh,      \* history: update_w ran on w since the last density change
    freshSwap,  \* history: the same for wSwap
    nChanges    \* number of density updates made by the SCF driver so far

ctVars == <<donor, acceptor, vspin, rhoatom, w, wSwap, grad, fresh, freshSwap, nChanges>>

NoWeight == <<>>
NoGrad == [status |-> "none", atom |-> 0, rho_grad_r |-> <<>>, val |-> <<>>]

RECURSIVE SumOver(_, _, _)
SumOver(S, rho, g) ==
    IF S = {} THEN 0
    ELSE LET a == CHOOSE x \in S : TRUE
         IN  rho[a][g] + SumOver(S \ {a}, rho, g)

\* Fragment.rhopro_r = \sum_{I \in fragment} rho_I
rhopro_r(atoms, rho) == [g \in Grid |-> SumOver(atoms, rho, g)]

\* Sample.rhopro_tot_r = \sum_I rho_I
rhopro_tot_r(rho) == [g \in Grid |-> SumOver(Atoms, rho, g)]

eps == Q(EpsUnits)

\* self.sample.rhopro_tot_r < self.eps, point by point
BelowEps(rho) == [g \in Grid |-> FLess(Q(rhopro_tot_r(rho)[g]), eps)]

\* w = (donor.rhopro_r - acceptor.rhopro_r) / sample.rhopro_tot_r
WeightRatioAbs(d, a, rho) ==
    [g \in Grid |-> FAbs(FDiv(Q(rhopro_r(d, rho)[g] - rhopro_r(a, rho)[g]),
                              Q(rhopro_tot_r(rho)[g])))]

WeightRatioByAcceptor(d, a, rho) ==
    [g \in Grid |-> FDiv(Q(rhopro_r(d, rho)[g] - rhopro_r(a, rho)[g]),
                         Q(rhopro_r(a, rho)[g]))]

WeightRatio(d, a, rho) ==
    [g \in Grid |-> FDiv(Q(rhopro_r(d, rho)[g] - rhopro_r(a, rho)[g]),
                         Q(rhopro_tot_r(rho)[g]))]

\* w[rhopro_tot_r < eps] = 0.0
MaskFieldOnlyZeroDensity(f, rho) ==
    [g \in Grid |-> IF rhopro_tot_r(rho)[g] = 0 THEN Zero ELSE f[g]]

MaskField(f, rho) == [g \in Grid |-> IF BelowEps(rho)[g] THEN Zero ELSE f[g]]

\* update_w: the field stored in self.w, one copy per spin channel
update_w(d, a, rho, vs) ==
    LET wm == MaskField(WeightRatio(d, a, rho), rho)
    IN  IF vs = 1 THEN <<wm>> ELSE <<wm, wm>>

\* the signed indicator of compute_w_grad_r
DeltaAcceptorZero(atom, d, a) == IF atom \in d THEN 1 ELSE 0

Delta(atom, d, a) ==
    IF atom \in d THEN 1
    ELSE IF atom \in a THEN -1
    ELSE 0

\* np.einsum("sijk,aijk,ijk->asijk", delta - self.w, rho_grad_r, 1 / rhopro_tot_r)
\* followed by the masking loop over np.ndindex(3, vspin)
WGrad(delta, wf, rho_grad_r, rho, vs) ==
    [c \in Cart |->
        [s \in 1 .. vs |->
            MaskField(
                [g \in Grid |->
                    FMul(FMul(FSub(Q(delta), wf[s][g]), Q(rho_grad_r[c][g])),
                         FDiv(One, Q(rhopro_tot_r(rho)[g])))],
                rho)]]

\* compute_w_grad_r(atom): an error while self.w holds no field
compute_w_grad_r_NoCheck(atom, d, a, wf, rho_grad_r, rho, vs) ==
    [status |-> "ok", atom |-> atom, rho_grad_r |-> rho_grad_r,
     val |-> WGrad(Delta(atom, d, a),
                   IF wf = NoWeight THEN update_w({}, {}, rho, vs) ELSE wf,
                   rho_grad_r, rho, vs)]

compute_w_grad_r(atom, d, a, wf, rho_grad_r, rho, vs) ==
    IF wf = NoWeight
    THEN [status |-> "error", atom |-> atom, rho_grad_r |-> rho_grad_r, val |-> <<>>]
    ELSE [status |-> "ok", atom |-> atom, rho_grad_r |-> rho_grad_r,
          val |-> WGrad(Delta(atom, d, a), wf, rho_grad_r, rho, vs)]

\* fields returned by sample.compute_rhoatom_grad_r(atom)
GradSlopes == {-1, 2}
RhoGradFields == { [c \in Cart |-> [g \in Grid |-> p * c - g]] : p \in GradSlopes }

\* densities of a freshly built sample
InitDensities ==
    { [a \in Atoms |-> [g \in Grid |-> IF a = 1 /\ g = 1 THEN 2
                                        ELSE IF a = 2 /\ g = 2 THEN 1 ELSE 0]],
      [a \in Atoms |-> [g \in Grid |-> IF a = 3 THEN g ELSE 1]] }

FragmentChoices == { <<{1}, {2}>> }

----------------------------------------------------------------------------
(* Electronic coupling: matrices are tuples of rows, indices start at 1.   *)
(* Wavefunctions are real (Gamma point), so np.conjugate leaves a value    *)
(* as it is.                                                               *)

WGrid == 1 .. 3

VARIABLES
    svspin,     \* <<solver1.sample.vspin, solver2.sample.vspin>>
    wfc,        \* <<solver1.sample.wfc, solver2.sample.wfc>>
    omega,      \* solver1.sample.omega
    Vc_tot,     \* <<solver1.Vc_tot[0], solver2.Vc_tot[0]>>
    energy,     \* <<[Ed, Ec] of solver1.sample, [Ed, Ec] of solver2.sample>>
    driverOf,   \* <<solver1.dft_driver, solver2.dft_driver>>, as driver identities
    close_dft_driver,
    pc,         \* position in compute_elcoupling
    err,        \* the exception that ended the call, "" if none
    mat,        \* the locals O, Odet, S, W, C, H, Hsymm; <<>> while not computed
    printed,    \* the |Hab| (H) value written to standard output; <<>> if none
    ret,        \* what the call handed back to its caller
    exitCalls   \* number of exit() calls received by each driver

habVars == <<svspin, wfc, omega, Vc_tot, energy, driverOf, close_dft_driver,
             pc, err, mat, printed, ret, exitCalls>>

vars == <<ctVars, habVars>>

Drivers == {1, 2}
NoMat == [O |-> <<>>, Odet |-> <<>>, S |-> <<>>, W |-> <<>>, C |-> <<>>,
          H |-> <<>>, Hsymm |-> <<>>]

Conj(x) == x

RECURSIVE SumQ(_, _)
SumQ(f, n) == IF n = 0 THEN Zero ELSE FAdd(SumQ(f, n - 1), f[n])

RECURSIVE SumInt(_, _)
SumInt(f, n) == IF n = 0 THEN 0 ELSE SumInt(f, n - 1) + f[n]

\* wfc.norb: the total number of orbitals
norb(wf) == SumInt([s \in 1 .. wf.nspin |-> SumInt(wf.nbnd[s], wf.nkpt)], wf.nspin)

\* wfc.skb2idx(ispin, ikpt, ibnd), spin-major, all three counted from 1 here
skb2idx(wf, ispin, ikpt, ibnd) ==
    SumInt([s \in 1 .. wf.nspin |-> SumInt(wf.nbnd[s], wf.nkpt)], ispin - 1)
    + SumInt(wf.nbnd[ispin], ikpt - 1) + ibnd

\* the (i, j) pairs the double loop of hab_get_O / hab_get_W visits: for each
\* spin, np.ndindex(nbnd[ispin, 0], nbnd[ispin, 0]) with wfc1's band counts
LoopPairs(wfc1, wfc2) ==
    UNION { { <<skb2idx(wfc1, s, 1, ib), skb2idx(wfc2, s, 1, jb)>> :
                ib \in 1 .. wfc1.nbnd[s][1], jb \in 1 .. wfc1.nbnd[s][1] } :
            s \in 1 .. wfc1.nspin }

\* (omega / m) * np.sum(np.conjugate(psi1) * f * psi2)
Integral(psi1, f, psi2, om) ==
    FMul(FDiv(Q(om), Q(Cardinality(WGrid))),
         SumQ([g \in WGrid |-> FMul(FMul(Conj(psi1[g]), f[g]), psi2[g])],
              Cardinality(WGrid)))

Ones == [g \in WGrid |-> One]

hab_get_O(wfc1, wfc2, om) ==
    [i \in 1 .. norb(wfc1) |->
        [j \in 1 .. norb(wfc1) |->
            IF <<i, j>> \in LoopPairs(wfc1, wfc2)
            THEN Integral(wfc1.psi_r[i], Ones, wfc2.psi_r[j], om)
            ELSE Zero]]

\* the matrix without row r and column c
Minor(M, r, c) ==
    [i \in 1 .. Len(M) - 1 |->
        [j \in 1 .. Len(M) - 1 |->
            M[IF i < r THEN i ELSE i + 1][IF j < c THEN j ELSE j + 1]]]

\* np.linalg.det, by expansion along the first row
RECURSIVE Det(_)
Det(M) ==
    IF Len(M) = 0 THEN One
    ELSE SumQ([j \in 1 .. Len(M) |->
                  FMul(IF j % 2 = 1 THEN M[1][j] ELSE FNeg(M[1][j]),
                       Det(Minor(M, 1, j)))],
              Len(M))

Singular(M) == Det(M) = Zero

\* np.linalg.inv of a non-singular matrix: the adjugate over the determinant
Inv(M) ==
    [i \in 1 .. Len(M) |->
        [j \in 1 .. Len(M) |->
            FDiv(FMul(IF (i + j) % 2 = 0 THEN One ELSE Q(-1), Det(Minor(M, j, i))),
                 Det(M))]]

MatMul(A, B) ==
    [i \in 1 .. Len(A) |->
        [j \in 1 .. Len(B[1]) |->
            SumQ([k \in 1 .. Len(B) |-> FMul(A[i][k], B[k][j])], Len(B))]]

Scale(x, M) == [i \in 1 .. Len(M) |-> [j \in 1 .. Len(M[i]) |-> FMul(x, M[i][j])]]

Transpose(M) == [i \in 1 .. Len(M[1]) |-> [j \in 1 .. Len(M) |-> M[j][i]]]

Trace(M) == SumQ([i \in 1 .. Len(M) |-> M[i][i]], Len(M))

\* hab_get_S: S = [[1, conj(Odet)], [Odet, 1]]
hab_get_S(O) == <<<<One, Conj(Det(O))>>, <<Det(O), One>>>>

\* Vc_dense = 0.5 * (solver1.Vc_tot + solver2.Vc_tot)[0, ...]
Vc_dense(vc) == [g \in WGrid |-> FMul(Half, FAdd(vc[1][g], vc[2][g]))]

\* ftrr between a density grid and a wavefunction grid of the same dimensions
ftrr(f) == f

\* cofactor matrix of hab_get_W: C = (Oinv @ (Odet * eye(norb))).T
CofactorC(O) == Transpose(Scale(Det(O), Inv(O)))

hab_get_P12(wfc1, wfc2, Vc, om) ==
    [i \in 1 .. norb(wfc1) |->
        [j \in 1 .. norb(wfc1) |->
            IF <<i, j>> \in LoopPairs(wfc1, wfc2)
            THEN Integral(wfc1.psi_r[i], Vc, wfc2.psi_r[j], om)
            ELSE Zero]]

\* W[0,1] = Vab = trace(P12 @ C), W[1,0] = conj(Vab), diagonal left zero
hab_get_W(wfc1, wfc2, Vc, O, om) ==
    LET Vab == Trace(MatMul(hab_get_P12(wfc1, wfc2, Vc, om), CofactorC(O)))
    IN  <<<<Zero, Vab>>, <<Conj(Vab), Zero>>>>

hab_get_H(e, S, W) ==
    LET Fa == FAdd(e[1].Ed, e[1].Ec)
        Fb == FAdd(e[2].Ed, e[2].Ec)
        H01 == FSub(FMul(Half, FAdd(FMul(Fb, S[1][2]), FMul(Fa, S[2][1]))),
                    FMul(Half, FAdd(W[1][2], W[2][1])))
    IN  <<<<e[1].Ed, H01>>, <<Conj(H01), e[2].Ed>>>>

IsSquare(n) == \E k \in 0 .. n : k * k = n
ISqrt(n) == CHOOSE k \in 0 .. n : k * k = n

\* x ^ (-1/2) for a positive rational with a rational root; any other finite
\* root (irrational, or complex for x < 0) is not tracked
InvSqrt(x) ==
    IF ~IsFinite(x) THEN x
    ELSE IF x[1] > 0 /\ IsSquare(x[1]) /\ IsSquare(x[2])
         THEN <<ISqrt(x[2]), ISqrt(x[1])>>
         ELSE Inexact

\* the same power taken through the eigenvalues without the singular case
fractional_matrix_power_NoSingularCase(S) ==
    LET p == InvSqrt(FAdd(One, S[2][1]))
        q == InvSqrt(FSub(One, S[2][1]))
        a == FMul(Half, FAdd(p, q))
        b == FMul(Half, FSub(p, q))
    IN  <<<<a, b>>, <<b, a>>>>

\* scipy.linalg.fractional_matrix_power(S, -1/2) for S = [[1, d], [d, 1]]:
\* eigenvalues 1 + d and 1 - d on the vectors (1, 1) and (1, -1); for a
\* singular S the routine gives up on a negative power and returns a matrix
\* filled with nan, it raises nothing
fractional_matrix_power_minus_half(S) ==
    IF Singular(S) THEN <<<<NaN, NaN>>, <<NaN, NaN>>>>
    ELSE LET p == InvSqrt(FAdd(One, S[2][1]))
             q == InvSqrt(FSub(One, S[2][1]))
             a == FMul(Half, FAdd(p, q))
             b == FMul(Half, FSub(p, q))
         IN  <<<<a, b>>, <<b, a>>>>

hab_get_Hsymm(H, S) ==
    MatMul(MatMul(fractional_matrix_power_minus_half(S), H),
           fractional_matrix_power_minus_half(S))

----------------------------------------------------------------------------
(* Inputs of the coupling calculation.                                     *)

E(k) == [g \in WGrid |-> IF g = k THEN One ELSE Zero]
Tilt == <<<<24, 25>>, <<7, 25>>, Zero>>

Wfc(ns, nk, nb, psi) == [nspin |-> ns, nkpt |-> nk, nbnd |-> nb, psi_r |-> psi]

WfcChoices ==
    { Wfc(1, 1, <<<<1>>>>, <<E(1)>>),
      Wfc(1, 1, <<<<1>>>>, <<E(2)>>),
      Wfc(1, 1, <<<<1>>>>, <<Tilt>>),
      Wfc(1, 1, <<<<2>>>>, <<E(1), E(2)>>),
      Wfc(1, 1, <<<<2>>>>, <<E(1), E(3)>>),
      Wfc(1, 1, <<<<2>>>>, <<Tilt, E(3)>>),
      Wfc(2, 1, <<<<1>>, <<1>>>>, <<E(1), E(2)>>),
      Wfc(2, 1, <<<<1>>, <<1>>>>, <<Tilt, E(2)>>),
      Wfc(1, 2, <<<<1, 1>>>>, <<E(1), E(2)>>),
      Wfc(3, 1, <<<<1>>, <<1>>, <<1>>>>, <<E(1), E(2), E(3)>>) }

VcChoices == { [g \in WGrid |-> Zero], [g \in WGrid |-> Q(2 * g)] }
EnergyChoices == { [Ed |-> Q(-3), Ec |-> One], [Ed |-> Q(-2), Ec |-> Zero] }

NoRet == [kind |-> "pending", val |-> <<>>]
ReturnNone == [kind |-> "None", val |-> <<>>]
ReturnValue(x) == [kind |-> "value", val |-> x]

----------------------------------------------------------------------------
(* compute_elcoupling, stage by stage.                                     *)

\* the precondition checks at the head of compute_elcoupling, in order
ConfigErrorNoKpointCheck(vs, wf) ==
    IF vs[1] # vs[2] THEN "AssertionError"
    ELSE IF vs[1] # 1 THEN "NotImplementedError"
    ELSE IF wf[1].nspin # wf[2].nspin THEN "AssertionError"
    ELSE IF wf[1].nbnd # wf[2].nbnd THEN "AssertionError"
    ELSE IF wf[1].nspin \notin {1, 2} THEN "NotImplementedError"
    ELSE ""

ConfigError(vs, wf) ==
    IF vs[1] # vs[2] THEN "AssertionError"
    ELSE IF vs[1] # 1 THEN "NotImplementedError"
    ELSE IF wf[1].nspin # wf[2].nspin THEN "AssertionError"
    ELSE IF wf[1].nkpt # wf[2].nkpt THEN "AssertionError"
    ELSE IF wf[1].nbnd # wf[2].nbnd THEN "AssertionError"
    ELSE IF wf[1].nspin \notin {1, 2} \/ wf[1].nkpt # 1 THEN "NotImplementedError"
    ELSE ""

habInputs == <<svspin, wfc, omega, Vc_tot, energy, driverOf, close_dft_driver>>

Raise(e) ==
    /\ pc' = "error"
    /\ err' = e
    /\ UNCHANGED <<habInputs, mat, printed, ret, exitCalls>>

Goto(p) ==
    /\ pc' = p
    /\ UNCHANGED <<habInputs, err, printed, ret, exitCalls>>

CheckConfig ==
    /\ pc = "start"
    /\ IF ConfigError(svspin, wfc) # ""
       THEN Raise(ConfigError(svspin, wfc))
       ELSE Goto("checked") /\ UNCHANGED mat
    /\ UNCHANGED ctVars

GetO ==
    /\ pc = "checked"
    /\ mat' = [mat EXCEPT !.O = hab_get_O(wfc[1], wfc[2], omega)]
    /\ Goto("O")
    /\ UNCHANGED ctVars

GetS ==
    /\ pc = "O"
    /\ mat' = [mat EXCEPT !.S = hab_get_S(mat.O), !.Odet = Det(mat.O)]
    /\ Goto("S")
    /\ UNCHANGED ctVars

\* np.linalg.inv raises LinAlgError on a singular O
GetW ==
    /\ pc = "S"
    /\ IF Singular(mat.O)
       THEN Raise("LinAlgError")
       ELSE /\ mat' = [mat EXCEPT
                        !.W = hab_get_W(wfc[1], wfc[2], ftrr(Vc_dense(Vc_tot)), mat.O, omega),
                        !.C = CofactorC(mat.O)]
            /\ Goto("W")
    /\ UNCHANGED ctVars

GetH ==
    /\ pc = "W"
    /\ mat' = [mat EXCEPT !.H = hab_get_H(energy, mat.S, mat.W)]
    /\ Goto("H")
    /\ UNCHANGED ctVars

GetHsymm ==
    /\ pc = "H"
    /\ mat' = [mat EXCEPT !.Hsymm = hab_get_Hsymm(mat.H, mat.S)]
    /\ Goto("Hsymm")
    /\ UNCHANGED ctVars

\* print("|Hab| (H):", np.abs(Hsymm[0, 1]))
PrintHab ==
    /\ pc = "Hsymm"
    /\ printed' = FAbs(mat.Hsymm[1][2])
    /\ pc' = "printed"
    /\ UNCHANGED <<habInputs, err, mat, ret, exitCalls, ctVars>>

\* the value a call that ran to its last line hands back: the function has
\* no return statement
ReturnedEarlierPrint(x) == ReturnValue(x)

Returned(x) == ReturnNone

\* the drivers the closing step calls exit() on
DriversToClose(d) == {d[1]}

\* if close_dft_driver: solver1.dft_driver.exit(); then the call returns
Finish ==
    /\ pc = "printed"
    /\ exitCalls' = [k \in Drivers |->
                        IF close_dft_driver /\ k \in DriversToClose(driverOf)
                        THEN exitCalls[k] + 1 ELSE exitCalls[k]]
    /\ ret' = Returned(printed)
    /\ pc' = "done"
    /\ UNCHANGED <<habInputs, err, mat, printed, ctVars>>

----------------------------------------------------------------------------
(* ChargeTransferConstraint: operations.                                   *)

\* the SCF driver replaces the projected density of one atom at one grid point
DensityChange ==
    /\ nChanges < MaxChanges
    /\ \E a \in Atoms, g \in Grid, v \in 0 .. MaxRho :
          /\ v \in {rhoatom[a][g] - 1, rhoatom[a][g] + 1}
          /\ rhoatom' = [rhoatom EXCEPT ![a][g] = v]
    /\ nChanges' = nChanges + 1
    /\ fresh' = FALSE
    /\ freshSwap' = FALSE
    /\ grad' = NoGrad
    /\ UNCHANGED <<donor, acceptor, vspin, w, wSwap, habVars>>

UpdateW ==
    /\ w' = update_w(donor, acceptor, rhoatom, vspin)
    /\ fresh' = TRUE
    /\ grad' = NoGrad
    /\ UNCHANGED <<donor, acceptor, vspin, rhoatom, wSwap, freshSwap, nChanges, habVars>>

\* update_w on the constraint built with the two fragments in swapped roles
UpdateWSwap ==
    /\ wSwap' = update_w(acceptor, donor, rhoatom, vspin)
    /\ freshSwap' = TRUE
    /\ grad' = NoGrad
    /\ UNCHANGED <<donor, acceptor, vspin, rhoatom, w, fresh, nChanges, habVars>>

ComputeWGradR ==
    /\ \E atom \in Atoms, f \in RhoGradFields :
          grad' = compute_w_grad_r(atom, donor, acceptor, w, f, rhoatom, vspin)
    /\ UNCHANGED <<donor, acceptor, vspin, rhoatom, w, wSwap, fresh, freshSwap,
                   nChanges, habVars>>

----------------------------------------------------------------------------
(* Specifications.                                                         *)

\* ChargeTransferConstraint.__init__: no weight field yet
InitConstraint ==
    /\ \E f \in FragmentChoices : donor = f[1] /\ acceptor = f[2]
    /\ vspin \in {1, 2}
    /\ rhoatom \in InitDensities
    /\ w = NoWeight
    /\ wSwap = NoWeight
    /\ grad = NoGrad
    /\ fresh = FALSE
    /\ freshSwap = FALSE
    /\ nChanges = 0

\* two converged solvers handed to compute_elcoupling
InitCoupling ==
    /\ svspin \in {1, 2} \X {1, 2}
    /\ wfc \in WfcChoices \X WfcChoices
    /\ omega = Cardinality(WGrid)
    /\ Vc_tot \in VcChoices \X VcChoices
    /\ energy \in EnergyChoices \X EnergyChoices
    /\ driverOf \in {<<1, 1>>, <<1, 2>>}
    /\ close_dft_driver \in BOOLEAN
    /\ pc = "start"
    /\ err = ""
    /\ mat = NoMat
    /\ printed = <<>>
    /\ ret = NoRet
    /\ exitCalls = [k \in Drivers |-> 0]

\* one fixed constraint, left alone while the coupling runs
ParkedConstraint ==
    /\ donor = {1}
    /\ acceptor = {2}
    /\ vspin = 1
    /\ rhoatom = [a \in Atoms |-> [g \in Grid |-> 1]]
    /\ w = NoWeight
    /\ wSwap = NoWeight
    /\ grad = NoGrad
    /\ fresh = FALSE
    /\ freshSwap = FALSE
    /\ nChanges = 0

\* one fixed pair of solvers, left alone while the constraint is exercised
ParkedCoupling ==
    /\ svspin = <<1, 1>>
    /\ wfc = <<Wfc(1, 1, <<<<1>>>>, <<E(1)>>), Wfc(1, 1, <<<<1>>>>, <<Tilt>>)>>
    /\ omega = Cardinality(WGrid)
    /\ Vc_tot = <<[g \in WGrid |-> Zero], [g \in WGrid |-> Zero]>>
    /\ energy = <<[Ed |-> Q(-3), Ec |-> One], [Ed |-> Q(-2), Ec |-> Zero]>>
    /\ driverOf = <<1, 1>>
    /\ close_dft_driver = TRUE
    /\ pc = "start"
    /\ err = ""
    /\ mat = NoMat
    /\ printed = <<>>
    /\ ret = NoRet
    /\ exitCalls = [k \in Drivers |-> 0]

Init == InitCoupling /\ ParkedConstraint

Next ==
    \/ CheckConfig
    \/ GetO
    \/ GetS
    \/ GetW
    \/ GetH
    \/ GetHsymm
    \/ PrintHab
    \/ Finish

Spec == Init /\ [][Next]_vars

InitCT == InitConstraint /\ ParkedCoupling

NextCT ==
    \/ DensityChange
    \/ UpdateW
    \/ ComputeWGradR

SpecCT == InitCT /\ [][NextCT]_vars

NextSwap ==
    \/ DensityChange
    \/ UpdateW
    \/ UpdateWSwap

SpecSwap == InitCT /\ [][NextSwap]_vars

----------------------------------------------------------------------------
(* Properties of the ChargeTransferConstraint.                             *)

TotalAt(g) == SumOver(Atoms, rhoatom, g)
DonorAt(g) == SumOver(donor, rhoatom, g)
AcceptorAt(g) == SumOver(acceptor, rhoatom, g)

\* C4, as stated: a compute_w_grad_r call made while the weight is missing or
\* stale (no update_w since the last density change) is signalled as an error
\* and returns no gradient.
C4_StaleWeightIsAnError ==
    (grad.status # "none" /\ ~fresh) => grad.status = "error"

\* C4, amended: a compute_w_grad_r call ends in an error exactly when no weight
\* field has been stored yet; with a stored weight, stale or not, it returns a
\* gradient.
C4_ErrorOnlyWithoutWeight ==
    grad.status # "none" =>
        /\ grad.status \in {"ok", "error"}
        /\ grad.status = "error" <=> w = NoWeight
        /\ (w # NoWeight /\ ~fresh) => grad.status = "ok"

C4_Witness ==
    /\ grad.status = "ok"
    /\ ~fresh
    /\ w # update_w(donor, acceptor, rhoatom, vspin)

\* C5: wherever rhopro_tot_r < eps, the weight stored by update_w is exactly 0
\* in every spin channel and the gradient returned by compute_w_grad_r is
\* exactly 0 for every atom, direction and spin channel.
C5_Masking ==
    /\ fresh =>
          /\ Len(w) = vspin
          /\ \A s \in 1 .. vspin, g \in Grid :
                TotalAt(g) < EpsUnits => w[s][g] = Zero
    /\ grad.status = "ok" =>
          \A c \in Cart, s \in 1 .. vspin, g \in Grid :
              TotalAt(g) < EpsUnits => grad.val[c][s][g] = Zero

C5_Witness ==
    /\ fresh
    /\ grad.status = "ok"
    /\ grad.atom \in donor
    /\ \E g \in Grid :
          /\ TotalAt(g) > 0
          /\ TotalAt(g) < EpsUnits
          /\ DonorAt(g) # AcceptorAt(g)
          /\ grad.rho_grad_r[1][g] # 0

\* C6: after update_w, every grid point with rhopro_tot_r >= eps has |w| <= 1
\* in every spin channel.
C6_WeightBounded ==
    fresh =>
        \A s \in 1 .. vspin, g \in Grid :
            TotalAt(g) >= EpsUnits => FLeq(FAbs(w[s][g]), One)

C6_Witness ==
    /\ fresh
    /\ vspin = 2
    /\ \E g \in Grid : TotalAt(g) >= EpsUnits /\ w[2][g] = One
    /\ \E g \in Grid : TotalAt(g) >= EpsUnits /\ FLess(Zero, w[2][g]) /\ FLess(w[2][g], One)

\* C7: for the same densities, eps and vspin, the weight of the constraint with
\* donor and acceptor swapped is the pointwise negation of the weight of the
\* constraint with the original roles, masked points included.
C7_Antisymmetry ==
    (fresh /\ freshSwap) =>
        /\ Len(wSwap) = Len(w)
        /\ \A s \in 1 .. vspin, g \in Grid : wSwap[s][g] = FNeg(w[s][g])

C7_Witness ==
    /\ fresh
    /\ freshSwap
    /\ \E g \in Grid : TotalAt(g) >= EpsUnits /\ FLess(Zero, w[1][g])
    /\ \E g \in Grid : TotalAt(g) < EpsUnits /\ DonorAt(g) # AcceptorAt(g)

\* C8: compute_w_grad_r(atom) returns, at every unmasked grid point,
\* (delta - w[spin]) * grad_rho_atom[cart] / rhopro_tot_r with delta = +1 for a
\* donor atom, -1 for an acceptor atom and 0 for any other atom.
C8_GradientFormula ==
    grad.status = "ok" =>
        LET delta == IF grad.atom \in donor THEN 1
                     ELSE IF grad.atom \in acceptor THEN -1 ELSE 0
        IN  \A c \in Cart, s \in 1 .. vspin, g \in Grid :
                TotalAt(g) >= EpsUnits =>
                    grad.val[c][s][g] =
                        FDiv(FMul(FSub(Q(delta), w[s][g]), Q(grad.rho_grad_r[c][g])),
                             Q(TotalAt(g)))

C8_Witness ==
    /\ grad.status = "ok"
    /\ grad.atom \notin donor \cup acceptor
    /\ \E g \in Grid :
          /\ TotalAt(g) >= EpsUnits
          /\ w[1][g] # Zero
          /\ grad.val[1][1][g] # Zero
          /\ grad.val[1][1][g] =
                FDiv(FMul(FNeg(w[1][g]), Q(grad.rho_grad_r[1][g])), Q(TotalAt(g)))

----------------------------------------------------------------------------
(* Properties of compute_elcoupling.                                       *)

Identity2 == <<<<One, Zero>>, <<Zero, One>>>>
NoExit == \A k \in Drivers : exitCalls[k] = 0
Unsupported ==
    \/ svspin[1] # svspin[2]
    \/ svspin[1] # 1
    \/ wfc[1].nspin # wfc[2].nspin
    \/ wfc[1].nkpt # wfc[2].nkpt
    \/ wfc[1].nbnd # wfc[2].nbnd
    \/ wfc[1].nkpt # 1

\* C1: on an unsupported configuration (vspin values differ, vspin # 1, nspin,
\* nkpt or nbnd differ, nkpt # 1) the call ends in an error before any of O, S,
\* W, H, Hsymm is computed, nothing is reported or returned, and exit() is
\* called on no driver.
C1_FailFast ==
    Unsupported =>
        /\ pc \in {"start", "error"}
        /\ pc = "error" => err \in {"AssertionError", "NotImplementedError"}
        /\ mat = NoMat
        /\ printed = <<>>
        /\ ret = NoRet
        /\ NoExit

C1_Witness ==
    /\ pc = "error"
    /\ svspin = <<1, 1>>
    /\ wfc[1] = wfc[2]
    /\ wfc[1].nkpt = 2
    /\ err = "NotImplementedError"

\* C2, as stated: a call that runs to its end returns the scalar |Hsymm[0,1]|
\* to its caller.
C2_ReturnsCoupling ==
    pc = "done" => ret = ReturnValue(FAbs(mat.Hsymm[1][2]))

\* C2, amended: a call that runs to its end prints |Hsymm[0,1]| of the Lowdin
\* symmetrized Hamiltonian computed in that call (for S = [[1,d],[d,1]] that
\* element is (H01 - d (H00 + H11) / 2) / (1 - d^2)) and returns None.
C2_PrintsCouplingReturnsNone ==
    pc = "done" =>
        /\ ret = ReturnNone
        /\ printed = FAbs(mat.Hsymm[1][2])
        /\ IsFinite(printed) =>
              printed =
                FAbs(FDiv(FSub(mat.H[1][2],
                               FMul(FMul(Half, mat.Odet),
                                    FAdd(mat.H[1][1], mat.H[2][2]))),
                          FSub(One, FMul(mat.Odet, mat.Odet))))

C2_Witness ==
    /\ pc = "done"
    /\ ret = ReturnNone
    /\ IsFinite(printed)
    /\ printed # Zero
    /\ printed # FAbs(mat.H[1][2])

\* C3: with close_dft_driver true a completed call has called exit() on the
\* drivers of both solvers, each only after Hsymm was computed; with
\* close_dft_driver false exit() is called on neither.
C3_BothDriversClosed ==
    /\ (pc = "done" /\ close_dft_driver) =>
          exitCalls[driverOf[1]] >= 1 /\ exitCalls[driverOf[2]] >= 1
    /\ mat.Hsymm = <<>> => NoExit
    /\ ~close_dft_driver => NoExit

\* C9: with single-orbital, single-spin, single-k-point states whose overlap is
\* O = [[0]], the pipeline completes with S = identity, Hsymm = H and
\* |Hab| = |H[0,1]|.
C9_OrthogonalCompletes ==
    mat.O = <<<<Zero>>>> =>
        /\ pc # "error"
        /\ pc = "done" =>
              /\ mat.S = Identity2
              /\ mat.Hsymm = mat.H
              /\ printed = FAbs(mat.H[1][2])

\* C10, as stated: with identical single orbitals (O = [[1]], singular S) the
\* pipeline raises an error at the Lowdin step and reports no coupling.
C10_SingularOverlapRaises ==
    mat.O = <<<<One>>>> => pc \notin {"Hsymm", "printed", "done"}

\* C10, amended: with O = [[1]] the state overlap is S = [[1,1],[1,1]], no
\* error is raised at any stage, the Lowdin step yields a matrix of nan, and
\* the call completes reporting nan as the coupling.
C10_SingularOverlapGivesNaN ==
    mat.O = <<<<One>>>> =>
        /\ pc # "error"
        /\ mat.S # <<>> => mat.S = <<<<One, One>>, <<One, One>>>>
        /\ mat.Hsymm # <<>> => mat.Hsymm = <<<<NaN, NaN>>, <<NaN, NaN>>>>
        /\ pc \in {"printed", "done"} => printed = NaN

C10_Witness ==
    /\ mat.O = <<<<One>>>>
    /\ pc = "done"
    /\ printed = NaN
    /\ mat.H[1][2] # Zero

====
